---- MODULE Spec2Model ----
(***************************************************************************)
(* A model of the AuthManager class of auth-sdk (src/unnamed/part_000, the *)
(* compiled full variant of src/src/index.ts): one AuthManager singleton   *)
(* per browsing context, the stores the contexts of one origin share       *)
(* (localStorage, the cookie jar), the per-tab sessionStorage, and the     *)
(* three notification channels (window.postMessage, BroadcastChannel,      *)
(* storage events) with their messages in flight.                          *)
(*                                                                         *)
(* JavaScript values are modelled as tuples so that null compares with     *)
(* every other value:                                                      *)
(*   Null               null / undefined                                   *)
(*   <<"obj", n>>       a user record (the subject), named n               *)
(*   <<"num", k>>       the number k;  <<"nan", 0>> is NaN                 *)
(*   <<"raw", s>>       the string s (a token; "" is the empty string)     *)
(*   <<"json", v>>      the string JSON.stringify(v)                       *)
(*   <<"dec", k>>       the decimal string of the integer k                *)
(*   <<"uri", s>>       the string encodeURIComponent(s)                   *)
(***************************************************************************)
EXTENDS Integers, Sequences, FiniteSets, TLC

VARIABLES
    now,              \* Date.now(), milliseconds
    ticksLeft,        \* how many times the clock may still advance
    instance,         \* [Contexts -> BOOLEAN]: AuthManager.instance is set
    user,             \* [Contexts -> user | Null]: this.user
    listeners,        \* [Contexts -> Seq(Callbacks)]: this.listeners
    tokenExpiryTime,  \* [Contexts -> number | Null]: this.tokenExpiryTime
    config,           \* [Contexts -> record]: this.config
    localStorage,     \* [Origins -> [token, user, expiry]]: auth:token, auth:user, auth:expiry
    sessionStorage,   \* [Contexts -> [token, user]]: the tab's auth:token, auth:user
    cookie,           \* [Origins -> [auth_token, auth_user]]: the cookie jar
    location,         \* [Contexts -> URL | Null]: the auth_* parameters of window.location
    extListening,     \* [Contexts -> BOOLEAN]: listenForExternalChanges() has been called
    channelSupported, \* BOOLEAN: new BroadcastChannel() works in this browser
    winQueue,         \* [Contexts -> Seq(message)]: window 'message' events to dispatch
    bcQueue,          \* [Contexts -> Seq(message)]: BroadcastChannel messages to dispatch
    storageQueue,     \* [Contexts -> Seq(event)]: 'storage' events to dispatch
    called,           \* [Contexts -> Seq(<<callback, argument>>)]: the subscriber calls of the last step
    seen,             \* [Contexts -> Seq(record)]: what the persisted copies held at each of
                      \* those calls and at each broadcast() of the last step
    lastLogin,        \* [Origins -> the login whose session the origin's stores hold | Null]
    since,            \* [Origins -> the last login()/logout() of the origin, and the
                      \* calls each subscriber has received since it began]
    links,            \* the hand-off links made so far: the URL, and what it was made from
    hist,             \* the last two operations, oldest first (what the claims speak about)
    opsLeft           \* the operations the run may still perform

vars == <<now, ticksLeft, instance, user, listeners, tokenExpiryTime, config, localStorage,
          sessionStorage, cookie, location, extListening, channelSupported, winQueue,
          bcQueue, storageQueue, called, seen, lastLogin, since, links, hist, opsLeft>>

-----------------------------------------------------------------------------
(* Bounds of the model *)

MaxOps == 4
MaxTicks == 3
MaxSyncOps == 3
MaxHandoffOps == 4
MaxHandoffTicks == 3
MaxListeners == 2
MaxShareOps == 3
MaxShareTicks == 3
MaxForeignOps == 3
MaxForeignTicks == 2
MaxSubOps == 4
MaxRestoreOps == 2

(* Program constants *)

\* 5 * 60 * 1000: the replay window of a hand-off payload
ReplayWindowMs == 300000
\* 24 * 60 * 60 * 1000: config.tokenExpiry when the caller gives none
DefaultTokenExpiry == 86400000
\* max-age is in seconds; Date.now() is in milliseconds
MsPerSecond == 1000

-----------------------------------------------------------------------------
(* Values *)

Null == <<>>
Num(k) == <<"num", k>>
NaN == <<"nan", 0>>
Raw(s) == <<"raw", s>>
EmptyString == Raw("")

\* A and B are two tabs of one application; X is another application, on an
\* origin of its own
Contexts == {"A", "B", "X"}
Origin(c) == IF c = "X" THEN "o2" ELSE "o1"
Tabs == {"A", "B"}
Origins == {Origin(c) : c \in Contexts}

Users == {<<"obj", "alice">>, <<"obj", "bob">>}
Tokens == {Raw("t1"), Raw("t2")}
Callbacks == {"f", "g"}
\* the (user, token) pairs of the logins where the pairing is all that matters
Credentials == {<<<<"obj", "alice">>, Raw("t1")>>, <<<<"obj", "bob">>, Raw("t2")>>}

\* JS truthiness of a string or null, and of a number or null
TruthyStr(s) == s # Null /\ s # EmptyString
TruthyNum(n) == n # Null /\ n[1] = "num" /\ n[2] # 0

-----------------------------------------------------------------------------
(* Conversions *)

JSONstringify(v) == <<"json", v>>
\* JSON.parse: the value, or a SyntaxError (ok = FALSE) on text that is not JSON
JSONparse(s) == IF s # Null /\ s[1] = "json" THEN [ok |-> TRUE, val |-> s[2]]
                ELSE [ok |-> FALSE, val |-> Null]
\* Number.prototype.toString
NumToString(n) == <<"dec", n[2]>>
\* a string of decimal digits followed by other characters ("1700000000000abc")
DecimalThenText(k) == <<"decx", k>>
\* parseInt: the number the leading decimal digits of the string denote, NaN for
\* a string that does not start with a digit
parseInt(s) == IF s # Null /\ s[1] \in {"dec", "decx"} THEN Num(s[2]) ELSE NaN
encodeURIComponent(s) == IF s = EmptyString THEN EmptyString ELSE <<"uri", s>>
decodeURIComponent(s) == IF s[1] = "uri" THEN s[2] ELSE s
\* url.searchParams.set serialises a value, URLSearchParams.get parses it back
FormEncode(s) == <<"form", s>>
FormDecode(s) == IF s # Null /\ s[1] = "form" THEN s[2] ELSE s

\* a - b and a > b on numbers that may be NaN (every comparison with NaN is false)
NumLess(a, b) == a[1] = "num" /\ b[1] = "num" /\ a[2] < b[2]
NumMinus(a, b) == IF a[1] = "num" /\ b[1] = "num" THEN Num(a[2] - b[2]) ELSE NaN
\* x || 0 on a number or undefined
OrZero(n) == IF TruthyNum(n) THEN n[2] ELSE 0

-----------------------------------------------------------------------------
(* The state as one record, so that a method that calls another composes *)

\* (lastLogin is not state of the program: it remembers, for the claims, the last
\* login() of an origin that no logout() has followed)
World == [now |-> now, instance |-> instance, user |-> user, listeners |-> listeners,
          tokenExpiryTime |-> tokenExpiryTime, config |-> config,
          localStorage |-> localStorage, sessionStorage |-> sessionStorage,
          cookie |-> cookie, location |-> location, extListening |-> extListening,
          channelSupported |-> channelSupported,
          winQueue |-> winQueue, bcQueue |-> bcQueue, storageQueue |-> storageQueue,
          called |-> [c \in Contexts |-> <<>>], seen |-> [c \in Contexts |-> <<>>],
          lastLogin |-> lastLogin, since |-> since]

Commit(w) ==
    \E x \in {w} :
        /\ instance' = x.instance
        /\ user' = x.user
        /\ listeners' = x.listeners
        /\ tokenExpiryTime' = x.tokenExpiryTime
        /\ config' = x.config
        /\ localStorage' = x.localStorage
        /\ sessionStorage' = x.sessionStorage
        /\ cookie' = x.cookie
        /\ location' = x.location
        /\ extListening' = x.extListening
        /\ channelSupported' = x.channelSupported
        /\ winQueue' = x.winQueue
        /\ bcQueue' = x.bcQueue
        /\ storageQueue' = x.storageQueue
        /\ called' = x.called
        /\ seen' = x.seen
        /\ lastLogin' = x.lastLogin
        /\ since' = x.since

LocalKeys == {"auth:token", "auth:user", "auth:expiry"}
SessionKeys == {"auth:token", "auth:user"}
CookieNames == {"auth_token", "auth_user"}

-----------------------------------------------------------------------------
(* localStorage, sessionStorage and document.cookie *)

\* A change of localStorage made by context c raises a 'storage' event in every
\* other open document of the origin. Only the events of auth:user are queued:
\* the handler (part_000 line 236) drops those of every other key at its first test.
StorageEvent(w, c, key, old, new) ==
    IF key = "auth:user" /\ old # new
    THEN [w EXCEPT !.storageQueue =
            [d \in Contexts |->
                IF d # c /\ Origin(d) = Origin(c) /\ w.instance[d]
                THEN Append(w.storageQueue[d],
                            [key |-> key, oldValue |-> old, newValue |-> new])
                ELSE w.storageQueue[d]]]
    ELSE w

localStorageSetItem(w, c, key, value) ==
    StorageEvent([w EXCEPT !.localStorage[Origin(c)][key] = value],
                 c, key, w.localStorage[Origin(c)][key], value)

localStorageRemoveItem(w, c, key) == localStorageSetItem(w, c, key, Null)

localStorageGetItem(w, c, key) == w.localStorage[Origin(c)][key]

sessionStorageSetItem(w, c, key, value) == [w EXCEPT !.sessionStorage[c][key] = value]

sessionStorageGetItem(w, c, key) == w.sessionStorage[c][key]

\* document.cookie = "name=value; max-age=N; ...": a max-age of zero or less
\* removes the cookie, a positive one keeps it for that many seconds.
\* A jar entry is <<value, the instant it was set, max-age>>.
setCookie(w, c, name, value, maxAge) ==
    [w EXCEPT !.cookie[Origin(c)][name] =
        IF maxAge <= 0 THEN Null
        ELSE <<encodeURIComponent(value), w.now, maxAge>>]

\* The cookie is part of document.cookie until max-age seconds have passed.
CookieVisible(w, c, name) ==
    LET e == w.cookie[Origin(c)][name]
    IN  e # Null /\ (w.now - e[2]) \div MsPerSecond < e[3]

getCookie(w, c, name) ==
    IF CookieVisible(w, c, name)
    THEN decodeURIComponent(w.cookie[Origin(c)][name][1])
    ELSE Null

deleteCookie(w, c, name) == setCookie(w, c, name, EmptyString, -1)

-----------------------------------------------------------------------------
(* AuthManager: subscribers and the outgoing notifications *)

\* (not state of the program: login() or logout() begins in context c; `stored`
\* tells whether localStorage held a subject at that moment, `subs` who was
\* subscribed in each context, `calls` counts the calls of each callback from then on)
NoCalls == [d \in Contexts |-> [cb \in {"f", "g", "once", "dropF"} |-> 0]]
NothingYet == [op |-> "none", by |-> "none", stored |-> FALSE,
               subs |-> [d \in Contexts |-> <<>>], calls |-> NoCalls]
Began(w, c, op) ==
    [w EXCEPT !.since[Origin(c)] =
        [op |-> op, by |-> c,
         stored |-> TruthyStr(localStorageGetItem(w, c, "auth:user")),
         subs |-> w.listeners, calls |-> NoCalls]]

\* (not state of the program: what a reader in context c finds in the persisted
\* copies at a point inside a method, kept for the claims about the order of a
\* method's statements; `by` is the callback called or "broadcast")
Snapshot(w, c, by) ==
    [by |-> by,
     localToken |-> localStorageGetItem(w, c, "auth:token"),
     localUser |-> localStorageGetItem(w, c, "auth:user"),
     sessionToken |-> sessionStorageGetItem(w, c, "auth:token"),
     sessionUser |-> sessionStorageGetItem(w, c, "auth:user"),
     cookieToken |-> getCookie(w, c, "auth_token"),
     cookieUser |-> getCookie(w, c, "auth_user")]

subscribe(w, c, cb) == [w EXCEPT !.listeners[c] = Append(w.listeners[c], cb)]

\* the function subscribe(cb) returns: this.listeners.filter(l => l !== listener)
unsubscribe(w, c, cb) ==
    [w EXCEPT !.listeners[c] = SelectSeq(w.listeners[c], LAMBDA l : l # cb)]

\* What a callback does when it is called: "f" and "g" only take the user;
\* "once" calls the function its own subscribe returned, "dropF" the one the
\* subscribe of "f" returned (a filter that finds nothing when "f" is not there).
Unsubscribers == {"once", "dropF"}
AllCallbacks == Callbacks \cup Unsubscribers
Removes(cb) == IF cb = "once" THEN {"once"} ELSE IF cb = "dropF" THEN {"f"} ELSE {}
Body(w, c, cb) ==
    IF Removes(cb) = {} THEN w ELSE unsubscribe(w, c, CHOOSE l \in Removes(cb) : TRUE)

\* listener(this.user) for the elements i.. of the array forEach runs over
RECURSIVE forEach(_, _, _, _)
forEach(w, c, array, i) ==
    IF i > Len(array) THEN w
    ELSE forEach(Body([w EXCEPT !.called[c] = Append(@, <<array[i], w.user[c]>>),
                                !.seen[c] = Append(@, Snapshot(w, c, array[i])),
                                !.since[Origin(c)].calls[c][array[i]] = @ + 1],
                      c, array[i]),
                 c, array, i + 1)

\* (a faulty variant: a loop that reads this.listeners[i] anew at every turn)
RECURSIVE forLive(_, _, _)
forLive(w, c, i) ==
    IF i > Len(w.listeners[c]) THEN w
    ELSE forLive(Body([w EXCEPT !.called[c] =
                            Append(@, <<w.listeners[c][i], w.user[c]>>)],
                      c, w.listeners[c][i]),
                 c, i + 1)

notifyLive(w, c) == forLive(w, c, 1)

\* notify(): every listener of the list is called with this.user, in list order.
\* forEach runs over the array this.listeners is at the call; the filter of an
\* unsubscribe makes a new array and leaves that one as it is.
notify(w, c) == forEach(w, c, w.listeners[c], 1)

\* (a faulty variant: window.postMessage only, no BroadcastChannel)
broadcastWindowOnly(w, c, type, u) ==
    [w EXCEPT !.winQueue[c] =
        Append(w.winQueue[c],
               [type |-> IF type = "login" THEN "AUTH_LOGIN" ELSE "AUTH_LOGOUT",
                user |-> u, auth |-> Null, origin |-> Origin(c)])]

\* (a faulty variant: the channel is opened first and its failure ends the method)
broadcastChannelFirst(w, c, type, u) ==
    IF w.channelSupported
    THEN [broadcastWindowOnly(w, c, type, u) EXCEPT
            !.bcQueue = [d \in Contexts |->
                            IF Origin(d) = Origin(c) /\ w.extListening[d]
                            THEN Append(w.bcQueue[d], [type |-> type, user |-> u])
                            ELSE w.bcQueue[d]]]
    ELSE w

\* broadcast(type, user): window.postMessage to the context's own window, then a
\* fresh BroadcastChannel('auth:channel') posts to every other channel object of
\* the origin, which are the ones listenForExternalChanges() opened (the one of
\* the posting context included: only the posting object itself is left out).
\* Where new BroadcastChannel() throws, the catch block warns and nothing is posted
\* on the channel.
broadcast(w, c, type, u) ==
    LET winMsg == [type |-> IF type = "login" THEN "AUTH_LOGIN" ELSE "AUTH_LOGOUT",
                   user |-> u, auth |-> Null, origin |-> Origin(c)]
        bcMsg == [type |-> type, user |-> u]
    IN  [w EXCEPT !.seen[c] = Append(@, Snapshot(w, c, "broadcast")),
                  !.winQueue[c] = Append(w.winQueue[c], winMsg),
                  !.bcQueue = [d \in Contexts |->
                                  IF /\ w.channelSupported
                                     /\ Origin(d) = Origin(c)
                                     /\ w.extListening[d]
                                  THEN Append(w.bcQueue[d], bcMsg)
                                  ELSE w.bcQueue[d]]]

-----------------------------------------------------------------------------
(* AuthManager: the session *)

\* (a faulty variant: a login over a running session keeps its subject)
loginAssignMerging(w, c, u, t) ==
    [w EXCEPT !.user[c] = IF w.user[c] # Null THEN w.user[c] ELSE u,
              !.tokenExpiryTime[c] = Num(w.now + OrZero(w.config[c].tokenExpiry)),
              !.lastLogin[Origin(c)] =
                  [user |-> u, token |-> t, at |-> w.now,
                   lifetime |-> OrZero(w.config[c].tokenExpiry)]]

\* login, lines 24-25: the session in memory
loginAssign(w, c, u, t) ==
    [w EXCEPT !.user[c] = u,
              !.tokenExpiryTime[c] = Num(w.now + OrZero(w.config[c].tokenExpiry)),
              !.lastLogin[Origin(c)] =
                  [user |-> u, token |-> t, at |-> w.now,
                   lifetime |-> OrZero(w.config[c].tokenExpiry)]]

\* login, lines 27-32: localStorage and the cookies
loginPersist(w, c, u, t) ==
    LET maxAge == OrZero(w.config[c].tokenExpiry)
        w1 == localStorageSetItem(w, c, "auth:token", t)
        w2 == localStorageSetItem(w1, c, "auth:user", JSONstringify(u))
        w3 == localStorageSetItem(w2, c, "auth:expiry", NumToString(w.tokenExpiryTime[c]))
        w4 == setCookie(w3, c, "auth_token", t, maxAge)
    IN  setCookie(w4, c, "auth_user", JSONstringify(u), maxAge)

\* login, lines 36-37: sessionStorage, written after the notifications
loginSessionStorage(w, c, u, t) ==
    sessionStorageSetItem(sessionStorageSetItem(w, c, "auth:token", t),
                          c, "auth:user", JSONstringify(u))

\* login, lines 27-32 one by one: the writes that can throw (a full or disabled
\* localStorage, a refused document.cookie)
LoginWrites == 1..5
loginWrite(w, c, u, t, i) ==
    LET maxAge == OrZero(w.config[c].tokenExpiry)
    IN  CASE i = 1 -> localStorageSetItem(w, c, "auth:token", t)
          [] i = 2 -> localStorageSetItem(w, c, "auth:user", JSONstringify(u))
          [] i = 3 -> localStorageSetItem(w, c, "auth:expiry",
                                          NumToString(w.tokenExpiryTime[c]))
          [] i = 4 -> setCookie(w, c, "auth_token", t, maxAge)
          [] i = 5 -> setCookie(w, c, "auth_user", JSONstringify(u), maxAge)

\* the writes i .. k-1, the ones made before write k throws
RECURSIVE loginWritesBefore(_, _, _, _, _, _)
loginWritesBefore(w, c, u, t, k, i) ==
    IF i >= k THEN w
    ELSE loginWritesBefore(loginWrite(w, c, u, t, i), c, u, t, k, i + 1)

\* (a faulty variant: the failed login is undone in memory)
loginThrowingRolledBack(w, c, u, t, k) ==
    [loginWritesBefore(loginAssign(w, c, u, t), c, u, t, k, 1) EXCEPT
        !.user[c] = w.user[c],
        !.tokenExpiryTime[c] = w.tokenExpiryTime[c],
        !.lastLogin[Origin(c)] = Null]

\* login(u, t) whose write k throws: the error leaves login at that line, after
\* lines 24-25 and the earlier writes, before notify, broadcast and sessionStorage
\* (the stores of the origin now hold no one login)
loginThrowing(w, c, u, t, k) ==
    [loginWritesBefore(loginAssign(w, c, u, t), c, u, t, k, 1) EXCEPT
        !.lastLogin[Origin(c)] = Null]

login(w, c, u, t) ==
    LET w1 == loginAssign(Began(w, c, "login"), c, u, t)
        w2 == loginPersist(w1, c, u, t)
        w3 == notify(w2, c)
        w4 == broadcast(w3, c, "login", u)
    IN  loginSessionStorage(w4, c, u, t)

\* (a faulty variant: the deadline is cleared, the subject is not)
logoutAssignKeepingUser(w, c) ==
    [w EXCEPT !.tokenExpiryTime[c] = Null, !.lastLogin[Origin(c)] = Null]

\* logout, lines 40-41: the session in memory
logoutAssign(w, c) ==
    [w EXCEPT !.user[c] = Null, !.tokenExpiryTime[c] = Null,
              !.lastLogin[Origin(c)] = Null]

\* (a faulty variant: the stores are cleared, the cookies are not)
logoutClearKeepingCookies(w, c) ==
    LET w1 == localStorageRemoveItem(w, c, "auth:token")
        w2 == localStorageRemoveItem(w1, c, "auth:user")
        w3 == localStorageRemoveItem(w2, c, "auth:expiry")
    IN  [w3 EXCEPT !.sessionStorage[c] = [k \in SessionKeys |-> Null]]

\* logout, lines 43-50: every persisted copy
logoutClear(w, c) ==
    LET w1 == localStorageRemoveItem(w, c, "auth:token")
        w2 == localStorageRemoveItem(w1, c, "auth:user")
        w3 == localStorageRemoveItem(w2, c, "auth:expiry")
        w4 == [w3 EXCEPT !.sessionStorage[c] = [k \in SessionKeys |-> Null]]
        w5 == deleteCookie(w4, c, "auth_token")
    IN  deleteCookie(w5, c, "auth_user")

\* (a faulty variant: the session in memory only)
logoutInMemory(w, c) == notify(logoutAssign(w, c), c)

logout(w, c) ==
    broadcast(notify(logoutClear(logoutAssign(Began(w, c, "logout"), c), c), c),
              c, "logout", Null)

\* the session has a deadline and it has passed (part_000 line 58)
Expired(w, c) ==
    /\ TruthyNum(w.tokenExpiryTime[c])
    /\ w.now > w.tokenExpiryTime[c][2]

\* what isLoggedIn() returns
isLoggedInResult(w, c) == w.user[c] # Null /\ ~Expired(w, c)

\* (a faulty variant: a read that changes nothing)
isLoggedInReadOnly(w, c) == w

\* the state isLoggedIn() leaves: an expired session is logged out
isLoggedIn(w, c) ==
    IF w.user[c] # Null /\ Expired(w, c) THEN logout(w, c) ELSE w

getUser(w, c) == w.user[c]

getToken(w, c) ==
    IF TruthyStr(localStorageGetItem(w, c, "auth:token"))
    THEN localStorageGetItem(w, c, "auth:token")
    ELSE sessionStorageGetItem(w, c, "auth:token")

-----------------------------------------------------------------------------
(* AuthManager: construction and restoration *)

\* a || b on strings
OrStr(a, b) == IF TruthyStr(a) THEN a ELSE b

\* (a faulty variant: the catch block logs the error and does nothing else)
restoreSessionSwallowing(w, c) ==
    LET token == OrStr(getCookie(w, c, "auth_token"),
                       localStorageGetItem(w, c, "auth:token"))
        userStr == OrStr(getCookie(w, c, "auth_user"),
                         localStorageGetItem(w, c, "auth:user"))
        parsed == JSONparse(userStr)
        expiryStr == localStorageGetItem(w, c, "auth:expiry")
    IN  IF TruthyStr(token) /\ TruthyStr(userStr) /\ parsed.ok
        THEN [w EXCEPT !.user[c] = parsed.val,
                       !.tokenExpiryTime[c] =
                           IF TruthyStr(expiryStr) THEN parseInt(expiryStr) ELSE @]
        ELSE w

\* (a faulty variant: the subject is restored, the deadline is not)
restoreSessionWithoutExpiry(w, c) ==
    LET token == OrStr(getCookie(w, c, "auth_token"),
                       localStorageGetItem(w, c, "auth:token"))
        userStr == OrStr(getCookie(w, c, "auth_user"),
                         localStorageGetItem(w, c, "auth:user"))
        parsed == JSONparse(userStr)
    IN  IF TruthyStr(token) /\ TruthyStr(userStr)
        THEN IF parsed.ok THEN [w EXCEPT !.user[c] = parsed.val] ELSE logout(w, c)
        ELSE w

restoreSession(w, c) ==
    LET cookieToken == getCookie(w, c, "auth_token")
        cookieUser == getCookie(w, c, "auth_user")
        localToken == localStorageGetItem(w, c, "auth:token")
        localUser == localStorageGetItem(w, c, "auth:user")
        token == OrStr(cookieToken, localToken)
        userStr == OrStr(cookieUser, localUser)
        parsed == JSONparse(userStr)
        expiryStr == localStorageGetItem(w, c, "auth:expiry")
    IN  IF TruthyStr(token) /\ TruthyStr(userStr)
        THEN IF parsed.ok
             THEN [w EXCEPT !.user[c] = parsed.val,
                            !.tokenExpiryTime[c] =
                                IF TruthyStr(expiryStr) THEN parseInt(expiryStr) ELSE @]
             ELSE logout(w, c)
        ELSE w

\* a property the caller's config object does not have
Absent == <<"absent", 0>>

\* this.config = { tokenExpiry: config.tokenExpiry || 24h,
\*                 crossOriginEnabled: config.crossOriginEnabled ?? true, ...config }
\* (domain, secure and sameSite only shape the cookie string and are left out)
MergeConfig(cfg) ==
    LET orDefault == IF TruthyNum(cfg.tokenExpiry) THEN cfg.tokenExpiry
                     ELSE Num(DefaultTokenExpiry)
    IN  [tokenExpiry |-> IF cfg.tokenExpiry # Absent THEN cfg.tokenExpiry ELSE orDefault,
         crossOriginEnabled |-> cfg.crossOriginEnabled # "false"]

NoConfig == [tokenExpiry |-> Null, crossOriginEnabled |-> FALSE]

\* (a faulty variant: the field initialisers reach the instance)
constructorReinitialising(w, c, cfg) ==
    LET w1 == [w EXCEPT !.user[c] = Null, !.listeners[c] = <<>>,
                        !.tokenExpiryTime[c] = Null]
    IN  IF w.instance[c]
        THEN w1
        ELSE [restoreSession([w1 EXCEPT !.config[c] = MergeConfig(cfg)], c)
                EXCEPT !.instance[c] = TRUE]

\* new AuthManager(config). The field initialisers run on the new object; when
\* AuthManager.instance is set that object is dropped and the instance returned.
constructor(w, c, cfg) ==
    IF w.instance[c]
    THEN w
    ELSE LET w1 == [w EXCEPT !.user[c] = Null, !.listeners[c] = <<>>,
                             !.tokenExpiryTime[c] = Null,
                             !.config[c] = MergeConfig(cfg)]
             w2 == restoreSession(w1, c)
         IN  [w2 EXCEPT !.instance[c] = TRUE]

-----------------------------------------------------------------------------
(* The minimal build (src/index.ts, dist/index.mjs): construction *)

\* restoreSession() without try/catch: JSON.parse of text that is not JSON throws
\* out of restoreSession and out of the constructor
restoreSessionMinimal(w, c) ==
    LET token == localStorageGetItem(w, c, "auth:token")
        userStr == localStorageGetItem(w, c, "auth:user")
        parsed == JSONparse(userStr)
    IN  IF TruthyStr(token) /\ TruthyStr(userStr)
        THEN [threw |-> ~parsed.ok, user |-> parsed.val]
        ELSE [threw |-> FALSE, user |-> Null]

\* isLoggedIn() of the minimal build: !!this.user
isLoggedInMinimal(w, c) == restoreSessionMinimal(w, c).user # Null

-----------------------------------------------------------------------------
(* AuthManager: hand-off *)

\* a hand-off URL: its auth_token, auth_user and auth_timestamp parameters
Url(token, userStr, timestamp) ==
    <<"url", FormEncode(token), FormEncode(userStr), FormEncode(timestamp)>>

\* (a faulty variant: the deadline is not looked at)
CanShareIgnoringExpiry(w, c) == w.user[c] # Null /\ TruthyStr(getToken(w, c))

\* generateAuthUrl / shareAuthWithApp throw unless isLoggedIn() and both
\* getToken() and getUser() give a value
CanShare(w, c) ==
    /\ isLoggedInResult(w, c)
    /\ TruthyStr(getToken(isLoggedIn(w, c), c))
    /\ getUser(isLoggedIn(w, c), c) # Null

\* the URL generateAuthUrl(targetUrl) returns, Null when it throws
generateAuthUrlResult(w, c) ==
    IF CanShare(w, c)
    THEN Url(getToken(w, c), JSONstringify(getUser(w, c)), NumToString(Num(w.now)))
    ELSE Null

\* (a faulty variant: the subscribers are told of the hand-off)
generateAuthUrlNotifying(w, c) == notify(isLoggedIn(w, c), c)

\* the state generateAuthUrl leaves: that of its isLoggedIn() call
generateAuthUrl(w, c) == isLoggedIn(w, c)

\* (a faulty variant: a payload of any age passes)
FreshAtAnyAge(w, authTime) == TRUE

\* Date.now() - authTime < 5 * 60 * 1000
Fresh(w, authTime) == NumLess(NumMinus(Num(w.now), authTime), Num(ReplayWindowMs))

\* processAuthFromUrl() adopts the payload of window.location
processAuthFromUrlAccepts(w, c) ==
    LET loc == w.location[c]
    IN  /\ loc # Null
        /\ TruthyStr(FormDecode(loc[2]))
        /\ TruthyStr(FormDecode(loc[3]))
        /\ TruthyStr(FormDecode(loc[4]))
        /\ JSONparse(FormDecode(loc[3])).ok
        /\ Fresh(w, parseInt(FormDecode(loc[4])))

processAuthFromUrlResult(w, c) == processAuthFromUrlAccepts(w, c)

\* (a faulty variant: the URL is cleaned, the payload is not adopted)
processAuthFromUrlWithoutLogin(w, c) ==
    IF processAuthFromUrlAccepts(w, c) THEN [w EXCEPT !.location[c] = Null] ELSE w

processAuthFromUrl(w, c) ==
    IF processAuthFromUrlAccepts(w, c)
    THEN LET loc == w.location[c]
             w1 == login(w, c, JSONparse(FormDecode(loc[3])).val, FormDecode(loc[2]))
         IN  [w1 EXCEPT !.location[c] = Null]
    ELSE w

\* targetWindow.postMessage(message, targetOrigin) reaches the window d only if
\* d's origin is targetOrigin (or targetOrigin is "*")
shareAuthWithApp(w, c, targetOrigin, d) ==
    LET w1 == isLoggedIn(w, c)
        msg == [type |-> "AUTH_SHARE", user |-> Null,
                auth |-> <<getToken(w1, c), getUser(w1, c), Num(w.now)>>,
                origin |-> Origin(c)]
    IN  IF CanShare(w, c) /\ w.instance[d] /\ targetOrigin \in {"*", Origin(d)}
        THEN [w1 EXCEPT !.winQueue[d] = Append(w1.winQueue[d], msg)]
        ELSE w1

-----------------------------------------------------------------------------
(* The handlers of incoming events *)

\* setupCrossOriginListener: the 'message' listener the constructor installs
shareHandler(w, c, msg) ==
    IF msg.type = "AUTH_SHARE" /\ Fresh(w, msg.auth[3])
    THEN login(w, c, msg.auth[2], msg.auth[1])
    ELSE w

setupCrossOriginListener(w, c, msg) ==
    IF w.config[c].crossOriginEnabled THEN shareHandler(w, c, msg) ELSE w

\* (a faulty variant: a notification that changes nothing is dropped)
onBroadcastSkippingNoChange(w, c, msg) ==
    LET m == constructor(w, c, [tokenExpiry |-> Absent, crossOriginEnabled |-> "absent"])
        u == IF msg.type = "login" THEN msg.user ELSE Null
    IN  IF msg.type \in {"login", "logout"} /\ u # m.user[c]
        THEN notify([m EXCEPT !.user[c] = u], c)
        ELSE m

\* (a faulty variant: the receiver passes the notification on)
onBroadcastEchoing(w, c, msg) ==
    LET m == constructor(w, c, [tokenExpiry |-> Absent, crossOriginEnabled |-> "absent"])
        u == IF msg.type = "login" THEN msg.user ELSE Null
    IN  IF msg.type \in {"login", "logout"}
        THEN broadcast(notify([m EXCEPT !.user[c] = u], c), c, msg.type, u)
        ELSE m

\* listenForExternalChanges: channel.onmessage
onBroadcast(w, c, msg) ==
    LET m == constructor(w, c, [tokenExpiry |-> Absent, crossOriginEnabled |-> "absent"])
    IN  IF msg.type = "login" THEN notify([m EXCEPT !.user[c] = msg.user], c)
        ELSE IF msg.type = "logout" THEN notify([m EXCEPT !.user[c] = Null], c)
        ELSE m

\* listenForExternalChanges: the 'message' listener
onMessage(w, c, msg) ==
    LET m == constructor(w, c, [tokenExpiry |-> Absent, crossOriginEnabled |-> "absent"])
    IN  IF msg.type = "AUTH_LOGIN" THEN notify([m EXCEPT !.user[c] = msg.user], c)
        ELSE IF msg.type = "AUTH_LOGOUT" THEN notify([m EXCEPT !.user[c] = Null], c)
        ELSE m

\* listenForExternalChanges: the 'storage' listener
onStorage(w, c, ev) ==
    IF ev.key = "auth:user" /\ ~TruthyStr(ev.newValue) /\ TruthyStr(ev.oldValue)
    THEN notify([constructor(w, c, [tokenExpiry |-> Absent, crossOriginEnabled |-> "absent"])
                    EXCEPT !.user[c] = Null], c)
    ELSE w

-----------------------------------------------------------------------------
(* Inputs *)

\* the arguments of new AuthManager(): none, as the module itself calls it, and
\* two configurations an application may pass (a lifetime of 2 ms; a lifetime of
\* 0 without the cross-origin listener)
NoArgs == [tokenExpiry |-> Absent, crossOriginEnabled |-> "absent"]
ConfigArgs == {NoArgs,
               [tokenExpiry |-> Num(2), crossOriginEnabled |-> "absent"],
               [tokenExpiry |-> Num(0), crossOriginEnabled |-> "false"]}

\* the clock advances by a millisecond, or to the last instant of a replay window
TickSteps == {1, ReplayWindowMs - 1}
\* the clock advances by a millisecond, or to the last instant before a deadline
ExpirySteps == {1, DefaultTokenExpiry - 1}

-----------------------------------------------------------------------------
(* The record of the last operations *)

\* op: the method called or the event dispatched; ctx: where; user, token, arg: its
\* arguments; ret: what it returned; at: when; was: this.user before it
Op(name, c, u, t, arg, ret) ==
    [op |-> name, ctx |-> c, user |-> u, token |-> t, arg |-> arg, ret |-> ret,
     at |-> now, was |-> user[c]]

Record(r) == hist' = IF Len(hist) < 2 THEN Append(hist, r) ELSE <<hist[2], r>>

\* what an operation was given and what it returned, as tagged tuples
Void == <<"void">>
Bool(b) == <<"bool", b>>

Call == opsLeft > 0 /\ opsLeft' = opsLeft - 1 /\ UNCHANGED <<now, ticksLeft>>

-----------------------------------------------------------------------------
(* Actions *)

\* A browser profile with empty stores in which the contexts of `loaded` have run
\* new AuthManager() and those of `listening` listenForExternalChanges() as well.
Profile(loaded, listening, ops, tk) ==
    /\ now = 1
    /\ ticksLeft = tk
    /\ instance = [c \in Contexts |-> c \in loaded]
    /\ user = [c \in Contexts |-> Null]
    /\ listeners = [c \in Contexts |-> <<>>]
    /\ tokenExpiryTime = [c \in Contexts |-> Null]
    /\ config = [c \in Contexts |-> IF c \in loaded THEN MergeConfig(NoArgs) ELSE NoConfig]
    /\ localStorage = [o \in Origins |-> [k \in LocalKeys |-> Null]]
    /\ sessionStorage = [c \in Contexts |-> [k \in SessionKeys |-> Null]]
    /\ cookie = [o \in Origins |-> [k \in CookieNames |-> Null]]
    /\ location = [c \in Contexts |-> Null]
    /\ extListening = [c \in Contexts |-> c \in listening]
    /\ winQueue = [c \in Contexts |-> <<>>]
    /\ bcQueue = [c \in Contexts |-> <<>>]
    /\ storageQueue = [c \in Contexts |-> <<>>]
    /\ called = [c \in Contexts |-> <<>>]
    /\ seen = [c \in Contexts |-> <<>>]
    /\ lastLogin = [o \in Origins |-> Null]
    /\ since = [o \in Origins |-> NothingYet]
    /\ links = {}
    /\ hist = <<>>
    /\ opsLeft = ops

\* such a profile in a browser that has BroadcastChannel
Start(loaded, listening, ops, tk) ==
    /\ Profile(loaded, listening, ops, tk)
    /\ channelSupported = TRUE

\* What a browser profile may hold when a page is opened: each field of the
\* cookie copy and of the localStorage copy is absent, is what a login wrote, or
\* (the subject) is text that is not JSON. The copies may differ (cookies are
\* shared by host name, localStorage by origin) and may be partial (a cookie can
\* be removed alone, a store can be written by other scripts of the origin).
Garbage == Raw("{not json")
SeedTokens == {Null} \cup Tokens
SeedUsers == {Null, Garbage} \cup {JSONstringify(u) : u \in Users}
SeedCookie(v) == IF v = Null THEN Null ELSE <<encodeURIComponent(v), 1, DefaultTokenExpiry>>

InitRestore ==
    /\ now = 1
    /\ ticksLeft = 0
    /\ instance = [c \in Contexts |-> FALSE]
    /\ user = [c \in Contexts |-> Null]
    /\ listeners = [c \in Contexts |-> <<>>]
    /\ tokenExpiryTime = [c \in Contexts |-> Null]
    /\ config = [c \in Contexts |-> NoConfig]
    /\ \E lt \in SeedTokens, lu \in SeedUsers, ct \in SeedTokens, cu \in SeedUsers :
          /\ localStorage =
                [o \in Origins |->
                    IF o = "o1"
                    THEN [k \in LocalKeys |->
                            IF k = "auth:token" THEN lt
                            ELSE IF k = "auth:user" THEN lu ELSE Null]
                    ELSE [k \in LocalKeys |-> Null]]
          /\ cookie =
                [o \in Origins |->
                    IF o = "o1"
                    THEN [n \in CookieNames |->
                            IF n = "auth_token" THEN SeedCookie(ct) ELSE SeedCookie(cu)]
                    ELSE [n \in CookieNames |-> Null]]
    /\ sessionStorage = [c \in Contexts |-> [k \in SessionKeys |-> Null]]
    /\ location = [c \in Contexts |-> Null]
    /\ extListening = [c \in Contexts |-> FALSE]
    /\ channelSupported = TRUE
    /\ winQueue = [c \in Contexts |-> <<>>]
    /\ bcQueue = [c \in Contexts |-> <<>>]
    /\ storageQueue = [c \in Contexts |-> <<>>]
    /\ called = [c \in Contexts |-> <<>>]
    /\ seen = [c \in Contexts |-> <<>>]
    /\ lastLogin = [o \in Origins |-> Null]
    /\ since = [o \in Origins |-> NothingYet]
    /\ links = {}
    /\ hist = <<>>
    /\ opsLeft = MaxRestoreOps

Init == Start({}, {}, MaxOps, MaxTicks)

\* a page of the origin is opened in a new tab, at a plain URL or at a hand-off
\* link, and the module is evaluated: const authManager = new AuthManager()
Load(c, url) ==
    /\ ~instance[c]
    /\ Call
    /\ Commit(constructor([World EXCEPT !.location[c] = url], c, NoArgs))
    /\ Record(Op("load", c, Null, Null, url, Void))
    /\ UNCHANGED links

\* a page that uses the minimal build is opened in a new tab: its module
\* constructs the AuthManager, which writes nothing, and the page asks isLoggedIn()
ConstructMinimal(c) ==
    /\ ~instance[c]
    /\ Call
    /\ Commit(World)
    /\ Record(Op("constructMinimal", c, restoreSessionMinimal(World, c).user, Null,
                 Null, IF restoreSessionMinimal(World, c).threw THEN <<"Error">>
                       ELSE Bool(isLoggedInMinimal(World, c))))
    /\ UNCHANGED links

\* new AuthManager(config) called by the application, after the module's own
New(c, cfg) ==
    /\ instance[c]
    /\ Call
    /\ Commit(constructor(World, c, cfg))
    /\ Record(Op("new", c, Null, Null, <<"cfg", cfg>>, <<"instance">>))
    /\ UNCHANGED links

Login(c, u, t) ==
    /\ instance[c]
    /\ Call
    /\ Commit(login(World, c, u, t))
    /\ Record(Op("login", c, u, t, Null, Void))
    /\ UNCHANGED links

\* login(u, t) in a browser that refuses write k
LoginThrowing(c, u, t, k) ==
    /\ instance[c]
    /\ Call
    /\ Commit(loginThrowing(World, c, u, t, k))
    /\ Record(Op("loginThrew", c, u, t, <<"num", k>>, <<"Error">>))
    /\ UNCHANGED links

Logout(c) ==
    /\ instance[c]
    /\ Call
    /\ Commit(logout(World, c))
    /\ Record(Op("logout", c, Null, Null, Null, Void))
    /\ UNCHANGED links

IsLoggedIn(c) ==
    /\ instance[c]
    /\ Call
    /\ Commit(isLoggedIn(World, c))
    /\ Record(Op("isLoggedIn", c, Null, Null, Null, Bool(isLoggedInResult(World, c))))
    /\ UNCHANGED links

Subscribe(c, cb) ==
    /\ instance[c]
    /\ Len(listeners[c]) < MaxListeners
    /\ Call
    /\ Commit(subscribe(World, c, cb))
    /\ Record(Op("subscribe", c, Null, Null, <<"fn", cb>>, Void))
    /\ UNCHANGED links

Unsubscribe(c, cb) ==
    /\ instance[c]
    /\ \E i \in 1..Len(listeners[c]) : listeners[c][i] = cb
    /\ Call
    /\ Commit(unsubscribe(World, c, cb))
    /\ Record(Op("unsubscribe", c, Null, Null, <<"fn", cb>>, Void))
    /\ UNCHANGED links

ListenForExternalChanges(c) ==
    /\ instance[c]
    /\ ~extListening[c]
    /\ Call
    /\ Commit([World EXCEPT !.extListening[c] = TRUE])
    /\ Record(Op("listenForExternalChanges", c, Null, Null, Null, Void))
    /\ UNCHANGED links

GenerateAuthUrl(c) ==
    /\ instance[c]
    /\ Call
    /\ Commit(generateAuthUrl(World, c))
    /\ LET url == generateAuthUrlResult(World, c)
       IN  /\ Record(Op("generateAuthUrl", c, Null, Null, Null,
                        IF url = Null THEN <<"Error">> ELSE url))
           /\ links' = IF url = Null THEN links
                       ELSE links \cup {[url |-> url, user |-> user[c],
                                         token |-> getToken(World, c), at |-> now]}

ProcessAuthFromUrl(c) ==
    /\ instance[c]
    /\ Call
    /\ Commit(processAuthFromUrl(World, c))
    /\ Record(Op("processAuthFromUrl", c, Null, Null, location[c],
                 Bool(processAuthFromUrlResult(World, c))))
    /\ UNCHANGED links

ShareAuthWithApp(c, targetOrigin, d) ==
    /\ instance[c]
    /\ Call
    /\ Commit(shareAuthWithApp(World, c, targetOrigin, d))
    /\ Record(Op("shareAuthWithApp", c, Null, Null, <<targetOrigin, d>>,
                 IF CanShare(World, c) THEN Void ELSE <<"Error">>))
    /\ UNCHANGED links

\* a page of an origin that runs none of the applications holds a reference to
\* the window of d (its opener, a frame it embeds) and posts it a message of the
\* AUTH_SHARE shape; event.origin is the origin of the posting page
ForeignOrigin == "o3"

PostFromForeignWindow(d, u, t) ==
    /\ instance[d]
    /\ Call
    /\ LET msg == [type |-> "AUTH_SHARE", user |-> Null,
                   auth |-> <<t, u, Num(now)>>, origin |-> ForeignOrigin]
       IN  /\ Commit([World EXCEPT !.winQueue[d] = Append(@, msg)])
           /\ Record(Op("foreignPost", d, u, t, <<"msg", msg>>, Void))
    /\ UNCHANGED links

\* the window dispatches its next 'message' event to the listeners, in the
\* order they were installed
DeliverMessage(c) ==
    /\ winQueue[c] # <<>>
    /\ LET msg == Head(winQueue[c])
           w0 == [World EXCEPT !.winQueue[c] = Tail(winQueue[c])]
           w1 == setupCrossOriginListener(w0, c, msg)
       IN  /\ Commit(IF extListening[c] THEN onMessage(w1, c, msg) ELSE w1)
           /\ Record(Op("message", c, msg.user, Null, <<"msg", msg>>, Void))
    /\ UNCHANGED <<now, ticksLeft, links, opsLeft>>

DeliverBroadcast(c) ==
    /\ bcQueue[c] # <<>>
    /\ LET msg == Head(bcQueue[c])
       IN  /\ Commit(onBroadcast([World EXCEPT !.bcQueue[c] = Tail(bcQueue[c])], c, msg))
           /\ Record(Op("broadcast", c, msg.user, Null, <<"msg", msg>>, Void))
    /\ UNCHANGED <<now, ticksLeft, links, opsLeft>>

DeliverStorage(c) ==
    /\ storageQueue[c] # <<>>
    /\ LET ev == Head(storageQueue[c])
           w0 == [World EXCEPT !.storageQueue[c] = Tail(storageQueue[c])]
       IN  /\ Commit(IF extListening[c] THEN onStorage(w0, c, ev) ELSE w0)
           /\ Record(Op("storage", c, Null, Null, <<"ev", ev>>, Void))
    /\ UNCHANGED <<now, ticksLeft, links, opsLeft>>

Tick(d) ==
    /\ ticksLeft > 0
    /\ now' = now + d
    /\ ticksLeft' = ticksLeft - 1
    /\ UNCHANGED <<instance, user, listeners, tokenExpiryTime, config, localStorage,
                   sessionStorage, cookie, location, extListening, channelSupported,
                   winQueue, bcQueue, storageQueue, called, seen, lastLogin, since,
                   links, hist, opsLeft>>

\* The session of one origin over time: construction in fresh and in running
\* contexts, login, logout, subscription and the expiry check.
Next ==
    \/ \E c \in Tabs : Load(c, Null)
    \/ \E c \in Tabs, cfg \in ConfigArgs : New(c, cfg)
    \/ \E c \in Tabs, u \in Users, t \in Tokens : Login(c, u, t)
    \/ \E c \in Tabs : Logout(c)
    \/ \E c \in Tabs : IsLoggedIn(c)
    \/ \E c \in Tabs, cb \in Callbacks : Subscribe(c, cb)
    \/ \E d \in ExpirySteps : Tick(d)

Spec == Init /\ [][Next]_vars

\* Synchronisation between the tabs of an origin: both are loaded and have called
\* listenForExternalChanges(); the notifications are delivered in any order.
InitSync == Start(Tabs, Tabs, MaxSyncOps, 0)

NextSync ==
    \/ \E cr \in Credentials : Login("A", cr[1], cr[2])
    \/ Logout("A")
    \/ \E cb \in Callbacks : Subscribe("B", cb)
    \/ \E c \in Tabs : DeliverMessage(c)
    \/ \E c \in Tabs : DeliverBroadcast(c)
    \/ \E c \in Tabs : DeliverStorage(c)

SpecSync == InitSync /\ [][NextSync]_vars

\* Propagation from tab A to tab B: as above, with the events of A's own window
\* and channel left pending (B posts nothing, its window receives no message).
\* The event loop of a tab runs every task that is queued for it:
\* a message of the BroadcastChannel that waits for B is delivered.
NextPropagate ==
    \/ \E cr \in Credentials : Login("A", cr[1], cr[2])
    \/ Logout("A")
    \/ \E cb \in Callbacks : Subscribe("B", cb)
    \/ DeliverBroadcast("B")
    \/ DeliverStorage("B")

SpecPropagate ==
    /\ InitSync
    /\ [][NextPropagate]_vars
    /\ WF_vars(DeliverBroadcast("B"))

\* Hand-off: application A gives its session to application X by a link or by a
\* window message, which X uses at once or after some time. (The 'message'
\* events of A's own window, which no listener of A acts on, are left pending.)
InitHandoff == Start({"A"}, {}, MaxHandoffOps, MaxHandoffTicks)

NextHandoff ==
    \/ \E l \in links : Load("X", l.url)
    \/ Load("X", Null)
    \/ \E cr \in Credentials : Login("A", cr[1], cr[2])
    \/ GenerateAuthUrl("A")
    \/ ProcessAuthFromUrl("X")
    \/ \E o \in {Origin("X"), "*"} : ShareAuthWithApp("A", o, "X")
    \/ DeliverMessage("X")
    \/ \E d \in TickSteps : Tick(d)

SpecHandoff == InitHandoff /\ [][NextHandoff]_vars

\* Sharing over the lifetime of a session: application A, with subscribers, makes
\* links and posts its session to the window of application X before and after
\* the deadline of its session.
ShareTargets == {Origin("X"), "*"}

InitShare == Start({"A", "X"}, {}, MaxShareOps, MaxShareTicks)

NextShare ==
    \/ \E cr \in Credentials : Login("A", cr[1], cr[2])
    \/ \E cb \in Callbacks : Subscribe("A", cb)
    \/ GenerateAuthUrl("A")
    \/ \E o \in ShareTargets : ShareAuthWithApp("A", o, "X")
    \/ \E d \in ExpirySteps : Tick(d)

SpecShare == InitShare /\ [][NextShare]_vars

\* Messages from elsewhere: the window of application X, with or without a
\* session of its own, is posted AUTH_SHARE messages by a foreign page.
InitForeign == Start({"X"}, {}, MaxForeignOps, MaxForeignTicks)

NextForeign ==
    \/ \E cr \in Credentials : Login("X", cr[1], cr[2])
    \/ \E cr \in Credentials : PostFromForeignWindow("X", cr[1], cr[2])
    \/ DeliverMessage("X")
    \/ \E d \in TickSteps : Tick(d)

SpecForeign == InitForeign /\ [][NextForeign]_vars

\* Subscribers: one context registers callbacks, some of which de-register
\* while they run, calls the functions subscribe returned, logs in and out.
InitSubscribers == Start({"A"}, {}, MaxSubOps, 0)

NextSubscribers ==
    \/ \E cb \in AllCallbacks : Subscribe("A", cb)
    \/ \E cb \in AllCallbacks : Unsubscribe("A", cb)
    \/ \E cr \in Credentials : Login("A", cr[1], cr[2])
    \/ Logout("A")

SpecSubscribers == InitSubscribers /\ [][NextSubscribers]_vars

\* Restoration: a page of either build is opened over what the profile holds.
NextRestore ==
    \/ Load("A", Null)
    \/ IsLoggedIn("A")
    \/ ConstructMinimal("B")

SpecRestore == InitRestore /\ [][NextRestore]_vars

-----------------------------------------------------------------------------
(* The claims *)

Last == hist[Len(hist)]
\* the last two operations were a, then b, in one context
Pair(a, b) ==
    /\ Len(hist) = 2
    /\ hist[1].op = a
    /\ hist[2].op = b
    /\ hist[1].ctx = hist[2].ctx
\* the lifetime context c is configured with
Lifetime(c) == OrZero(config[c].tokenExpiry)

\* C1: login(S, T) followed at once (at the same instant, nothing in between) by
\* isLoggedIn(): it returns true, getUser() is S, getToken() is T and the deadline
\* is that of the new login, whatever session the context held before.
C1_LoginThenLoggedIn ==
    (Pair("login", "isLoggedIn") /\ hist[2].at = hist[1].at)
    => LET c == hist[1].ctx
       IN  /\ hist[2].ret = Bool(TRUE)
           /\ getUser(World, c) = hist[1].user
           /\ getToken(World, c) = hist[1].token
           /\ tokenExpiryTime[c] = Num(hist[1].at + Lifetime(c))

\* a login over the session of another subject, then isLoggedIn()
C1_Witness ==
    /\ Pair("login", "isLoggedIn")
    /\ hist[2].at = hist[1].at
    /\ hist[1].was # Null
    /\ hist[1].was # hist[1].user
    /\ hist[2].ret = Bool(TRUE)

\* C2: logout() followed by isLoggedIn(): it returns false and getUser() is absent.
C2_LogoutThenLoggedOut ==
    Pair("logout", "isLoggedIn")
    => /\ hist[2].ret = Bool(FALSE)
       /\ getUser(World, hist[1].ctx) = Null

\* a logout of a running session, then isLoggedIn()
C2_Witness ==
    /\ Pair("logout", "isLoggedIn")
    /\ hist[1].was # Null
    /\ hist[2].ret = Bool(FALSE)

\* C3: login at t0 with lifetime L, then isLoggedIn() at t: before t0 + L it
\* returns true and the session stays; after t0 + L it returns false and the
\* session is cleared (getUser() is absent).
C3_Expiry ==
    Pair("login", "isLoggedIn")
    => LET c == hist[1].ctx
           deadline == hist[1].at + Lifetime(c)
       IN  /\ hist[2].at < deadline
                => hist[2].ret = Bool(TRUE) /\ getUser(World, c) = hist[1].user
           /\ hist[2].at > deadline
                => hist[2].ret = Bool(FALSE) /\ getUser(World, c) = Null

\* isLoggedIn() one millisecond after the deadline of a login with a lifetime
C3_Witness ==
    /\ Pair("login", "isLoggedIn")
    /\ Lifetime(hist[1].ctx) > 0
    /\ hist[2].at = hist[1].at + Lifetime(hist[1].ctx) + 1
    /\ hist[2].ret = Bool(FALSE)
    /\ user[hist[1].ctx] = Null

\* C6: a context constructed, at an instant up to t0 + L, in the origin of a
\* login(S, T) made at t0 with lifetime L and followed by no logout: it holds S
\* under the deadline t0 + L, and isLoggedIn() is true up to that deadline.
C6_RestoreInFreshContext ==
    (/\ Len(hist) > 0
     /\ Last.op = "load"
     /\ lastLogin[Origin(Last.ctx)] # Null
     /\ Last.at <= lastLogin[Origin(Last.ctx)].at + lastLogin[Origin(Last.ctx)].lifetime)
    => LET c == Last.ctx
           l == lastLogin[Origin(c)]
       IN  /\ getUser(World, c) = l.user
           /\ tokenExpiryTime[c] = Num(l.at + l.lifetime)
           /\ now <= l.at + l.lifetime => isLoggedInResult(World, c)

\* a tab opened some time after the login of another tab, before the deadline
C6_Witness ==
    /\ Len(hist) = 2
    /\ hist[1].op = "login"
    /\ hist[2].op = "load"
    /\ hist[2].ctx # hist[1].ctx
    /\ hist[2].at > hist[1].at
    /\ hist[2].at <= hist[1].at + Lifetime(hist[1].ctx)
    /\ user[hist[2].ctx] = hist[1].user
    /\ isLoggedInResult(World, hist[2].ctx)

\* C7: after logout() in a context the three localStorage keys, the two
\* sessionStorage keys of the context and the two cookies are absent, and a
\* context of the origin constructed next starts without a session.
C7_LogoutClearsPersisted ==
    /\ (Len(hist) > 0 /\ Last.op = "logout")
       => /\ \A k \in LocalKeys : localStorageGetItem(World, Last.ctx, k) = Null
          /\ \A k \in SessionKeys : sessionStorageGetItem(World, Last.ctx, k) = Null
          /\ \A n \in CookieNames : /\ getCookie(World, Last.ctx, n) = Null
                                    /\ cookie[Origin(Last.ctx)][n] = Null
    /\ (/\ Len(hist) = 2
        /\ hist[1].op = "logout"
        /\ hist[2].op = "load"
        /\ Origin(hist[2].ctx) = Origin(hist[1].ctx))
       => /\ getUser(World, hist[2].ctx) = Null
          /\ ~isLoggedInResult(World, hist[2].ctx)
          /\ tokenExpiryTime[hist[2].ctx] = Null

\* a tab opened after another tab logged its session out
C7_Witness ==
    /\ Len(hist) = 2
    /\ hist[1].op = "logout"
    /\ hist[1].was # Null
    /\ hist[2].op = "load"
    /\ hist[2].ctx # hist[1].ctx
    /\ user[hist[2].ctx] = Null

Received(u) ==
    /\ Len(hist) > 0
    /\ Last.ctx = "B"
    /\ Last.op \in {"broadcast", "message", "storage"}
    /\ getUser(World, "B") = u
    /\ called["B"] = [i \in 1..Len(listeners["B"]) |-> <<listeners["B"][i], u>>]

\* C4: tab A calls login(S, T) while tab B listens for external changes: in time
\* B handles the notification, after which getUser() in B is S and every
\* subscriber of B has been called with S.
C4_LoginPropagates ==
    \A u \in Users :
        (Len(hist) > 0 /\ Last.op = "login" /\ Last.ctx = "A" /\ Last.user = u)
        ~> Received(u)

\* B, with a subscriber, has taken over the subject of A's login
C4_Witness ==
    /\ Len(hist) = 2
    /\ hist[1].op = "login"
    /\ hist[1].ctx = "A"
    /\ hist[2].op = "broadcast"
    /\ hist[2].was = Null
    /\ Received(hist[1].user)
    /\ listeners["B"] # <<>>

\* C5: tab A calls logout() while tab B, listening for external changes, holds a
\* session: in time B handles the notification, after which getUser() in B is
\* absent, isLoggedIn() in B is false and every subscriber of B has been called
\* with the absent subject.
C5_LogoutPropagates ==
    (Len(hist) > 0 /\ Last.op = "logout" /\ Last.ctx = "A" /\ user["B"] # Null)
    ~> (Received(Null) /\ ~isLoggedInResult(World, "B"))

\* B, with a subscriber, has dropped its session on A's logout
C5_Witness ==
    /\ Len(hist) = 2
    /\ hist[1].op = "logout"
    /\ hist[1].ctx = "A"
    /\ hist[2].was # Null
    /\ Received(Null)
    /\ ~isLoggedInResult(World, "B")
    /\ listeners["B"] # <<>>

\* C9: generateAuthUrl() in a context that holds subject S and token T, then
\* processAuthFromUrl() in a context whose location is the URL produced, less
\* than the replay window later: it returns true, and in that context getUser()
\* is S and getToken() is T.
C9_HandoffRoundTrip ==
    \A l \in links :
        (/\ Len(hist) > 0
         /\ Last.op = "processAuthFromUrl"
         /\ Last.arg = l.url
         /\ Last.at - l.at < ReplayWindowMs)
        => /\ Last.ret = Bool(TRUE)
           /\ getUser(World, Last.ctx) = l.user
           /\ getToken(World, Last.ctx) = l.token

\* application X, opened at a link made some time before, has taken it
C9_Witness ==
    /\ Len(hist) = 2
    /\ hist[1].op = "load"
    /\ hist[1].ctx = "X"
    /\ hist[2].op = "processAuthFromUrl"
    /\ hist[2].ctx = "X"
    /\ hist[2].ret = Bool(TRUE)
    /\ \E l \in links : /\ hist[2].arg = l.url
                        /\ hist[2].at > l.at
                        /\ user["X"] = l.user
                        /\ getToken(World, "X") = l.token

\* a timestamp more than the replay window in the past
Stale(timestamp) == timestamp[1] = "num" /\ now - timestamp[2] > ReplayWindowMs

\* a step that leaves alone the session in memory, the subscribers and every
\* persisted copy, calls no subscriber and sends no notification
Untouched ==
    /\ UNCHANGED <<instance, user, tokenExpiryTime, listeners, config, localStorage,
                   sessionStorage, cookie, location, bcQueue, storageQueue>>
    /\ called' = [d \in Contexts |-> <<>>]

\* C10: a hand-off payload whose timestamp lies more than 5 minutes back:
\* processAuthFromUrl() returns false, the AUTH_SHARE listener ignores the
\* message, and either way session, persisted copies and subscribers stay as
\* they were and nothing is thrown.
C10_ReplayRejected ==
    [][/\ (/\ ProcessAuthFromUrl("X")
           /\ location["X"] # Null
           /\ Stale(parseInt(FormDecode(location["X"][4]))))
          => /\ hist'[Len(hist')].ret = Bool(FALSE)
             /\ Untouched
             /\ UNCHANGED winQueue
       /\ (/\ DeliverMessage("X")
           /\ Head(winQueue["X"]).type = "AUTH_SHARE"
           /\ Stale(Head(winQueue["X"]).auth[3]))
          => /\ hist'[Len(hist')].ret = Void
             /\ Untouched
             /\ winQueue' = [winQueue EXCEPT !["X"] = Tail(@)]]_vars

\* application X has just been handed an AUTH_SHARE message that waited for
\* more than five minutes, and holds no session
C10_Witness ==
    /\ Len(hist) > 0
    /\ Last.op = "message"
    /\ Last.ctx = "X"
    /\ Last.arg[2].type = "AUTH_SHARE"
    /\ Last.arg[2].auth[2] \in Users
    /\ Last.at - Last.arg[2].auth[3][2] > ReplayWindowMs
    /\ user["X"] = Null
    /\ \A k \in LocalKeys : localStorage[Origin("X")][k] = Null


\* the context holds no session, or one whose deadline has passed
NotAuthenticated(c) == user[c] = Null \/ Expired(World, c)

\* C11: generateAuthUrl and shareAuthWithApp called with no session, or with one
\* whose deadline has passed: the call throws, no URL is returned and no message
\* reaches the target window.
C11_NotAuthenticated ==
    [][/\ (GenerateAuthUrl("A") /\ NotAuthenticated("A"))
          => /\ hist'[Len(hist')].ret = <<"Error">>
             /\ links' = links
             /\ winQueue'["X"] = winQueue["X"]
       /\ \A o \in ShareTargets :
            (ShareAuthWithApp("A", o, "X") /\ NotAuthenticated("A"))
            => /\ hist'[Len(hist')].ret = <<"Error">>
               /\ links' = links
               /\ winQueue'["X"] = winQueue["X"]]_vars

\* shareAuthWithApp has thrown in a context whose session had expired
C11_Witness ==
    /\ Len(hist) > 0
    /\ Last.op = "shareAuthWithApp"
    /\ Last.was # Null
    /\ Last.ret = <<"Error">>
    /\ user["A"] = Null
    /\ winQueue["X"] = <<>>


\* C12: an AUTH_SHARE message is adopted only if its origin passes an origin
\* check: one that comes from an origin none of the applications runs on leaves
\* the session of the receiving context and its persisted copies as they were.
C12_OriginChecked ==
    [][(/\ DeliverMessage("X")
        /\ Head(winQueue["X"]).type = "AUTH_SHARE"
        /\ Head(winQueue["X"]).origin = ForeignOrigin)
       => UNCHANGED <<user, tokenExpiryTime, localStorage, sessionStorage, cookie>>]_vars


\* C13: a login(S, T) calls every registered subscriber once with S, in the
\* order of registration, also when a subscriber de-registers itself or another
\* one while it runs.
C13_FanOut ==
    [][\A cr \in Credentials :
          Login("A", cr[1], cr[2])
          => called'["A"] =
                [i \in 1..Len(listeners["A"]) |-> <<listeners["A"][i], cr[1]>>]]_vars

\* a login has called two subscribers, the first of which de-registered one
C13_Witness ==
    /\ Len(hist) > 0
    /\ Last.op = "login"
    /\ Len(called["A"]) = 2
    /\ called["A"][1][1] \in Unsubscribers
    /\ called["A"][2][1] \notin Unsubscribers
    /\ called["A"][2][2] = Last.user
    /\ Len(listeners["A"]) = 1


\* how many registrations of cb the list holds
Count(cb, list) == Len(SelectSeq(list, LAMBDA l : l = cb))

\* C14: calling the function one subscribe(cb) returned removes that one
\* registration: the list, which every later login, logout and received
\* notification runs over, keeps every other registration in its place, other
\* registrations of the same function included.
C14_Deregistration ==
    [][\A cb \in AllCallbacks :
          Unsubscribe("A", cb)
          => /\ Count(cb, listeners'["A"]) = Count(cb, listeners["A"]) - 1
             /\ SelectSeq(listeners'["A"], LAMBDA l : l # cb)
                  = SelectSeq(listeners["A"], LAMBDA l : l # cb)]_vars


\* the step leaves the session and the persisted copies as they were and calls
\* every subscriber of c once, with the absent subject
AppliedOnceWithAbsent(c) ==
    /\ UNCHANGED <<user, tokenExpiryTime, listeners, localStorage, sessionStorage, cookie>>
    /\ called'[c] = [i \in 1..Len(listeners[c]) |-> <<listeners[c][i], Null>>]

\* C15: a logout notification, received on any of the three channels by a
\* context that holds no session, leaves session and persisted copies as they
\* were and calls each subscriber once with the absent subject.
C15_RemoteLogoutIdempotent ==
    [][\A c \in Tabs :
          /\ (/\ DeliverBroadcast(c)
              /\ Head(bcQueue[c]).type = "logout"
              /\ user[c] = Null) => AppliedOnceWithAbsent(c)
          /\ (/\ DeliverMessage(c)
              /\ Head(winQueue[c]).type = "AUTH_LOGOUT"
              /\ user[c] = Null) => AppliedOnceWithAbsent(c)
          /\ (/\ DeliverStorage(c)
              /\ ~TruthyStr(Head(storageQueue[c]).newValue)
              /\ TruthyStr(Head(storageQueue[c]).oldValue)
              /\ user[c] = Null) => AppliedOnceWithAbsent(c)]_vars

\* tab B, with a subscriber and no session, has handled a logout broadcast
C15_Witness ==
    /\ Len(hist) > 0
    /\ Last.op = "broadcast"
    /\ Last.ctx = "B"
    /\ Last.arg[2].type = "logout"
    /\ Last.was = Null
    /\ user["B"] = Null
    /\ called["B"] # <<>>
    /\ \A i \in 1..Len(called["B"]) : called["B"][i][2] = Null


\* a persisted string that is there and is not JSON
Corrupt(s) == TruthyStr(s) /\ ~JSONparse(s).ok

\* after the step the context holds no session and no persisted copy is left
LoggedOutAndCleared(c) ==
    /\ user'[c] = Null
    /\ tokenExpiryTime'[c] = Null
    /\ \A k \in LocalKeys : localStorage'[Origin(c)][k] = Null
    /\ \A k \in SessionKeys : sessionStorage'[c][k] = Null
    /\ \A n \in CookieNames : cookie'[Origin(c)][n] = Null

RestoredToken(c) ==
    OrStr(getCookie(World, c, "auth_token"), localStorageGetItem(World, c, "auth:token"))
RestoredUserStr(c) ==
    OrStr(getCookie(World, c, "auth_user"), localStorageGetItem(World, c, "auth:user"))

C17_MinimalCorruptedSubject ==
    (/\ Len(hist) > 0
     /\ Last.op = "constructMinimal"
     /\ TruthyStr(localStorageGetItem(World, Last.ctx, "auth:token"))
     /\ Corrupt(localStorageGetItem(World, Last.ctx, "auth:user")))
    => Last.ret = Bool(FALSE)


\* a copy holds a non-empty token and a non-empty subject string
CompletePair(token, userStr) == TruthyStr(token) /\ TruthyStr(userStr)
\* the subject of a pair (none when the string is unparsable: forced logout)
SubjectOf(userStr) == IF JSONparse(userStr).ok THEN JSONparse(userStr).val ELSE Null
\* the subject the priority rule restores in context c: the cookie pair's, else
\* the localStorage pair's, else none
PrioritySubject(c) ==
    IF CompletePair(getCookie(World, c, "auth_token"), getCookie(World, c, "auth_user"))
    THEN SubjectOf(getCookie(World, c, "auth_user"))
    ELSE IF CompletePair(localStorageGetItem(World, c, "auth:token"),
                         localStorageGetItem(World, c, "auth:user"))
         THEN SubjectOf(localStorageGetItem(World, c, "auth:user"))
         ELSE Null

\* C18: at construction the session is restored from the cookie pair if that
\* copy holds both fields, otherwise from the localStorage pair if that copy
\* holds both; a copy with one field contributes nothing and fields of different
\* copies are never combined.
C18_RestorationPriority ==
    [][Load("A", Null) => user'["A"] = PrioritySubject("A")]_vars


\* every notification sent to context c has been received
Received19(c) == winQueue[c] = <<>> /\ bcQueue[c] = <<>> /\ storageQueue[c] = <<>>

\* C19: subject and token are set and cleared together: in every reachable
\* state of a context, after any local operations and once the notifications
\* sent to it are received, getUser() is absent exactly when getToken() is absent.
C19_SubjectAndTokenTogether ==
    \A c \in Contexts :
        (instance[c] /\ Received19(c))
        => (getUser(World, c) = Null <=> getToken(World, c) = Null)


\* C20 as stated: generateAuthUrl() does not mutate local state: whether it
\* returns a URL or fails, session, deadline and every persisted copy are as
\* before, no subscriber is invoked and no notification is emitted.
C20_AsStated ==
    [][GenerateAuthUrl("A") => (Untouched /\ UNCHANGED winQueue)]_vars

\* the step has told every subscriber of c, in order, that the session is gone,
\* and has emitted the logout notification of c
LogoutAnnounced(c) ==
    /\ called'[c] = [i \in 1..Len(listeners[c]) |-> <<listeners[c][i], Null>>]
    /\ Len(winQueue'[c]) = Len(winQueue[c]) + 1
    /\ winQueue'[c][Len(winQueue'[c])].type = "AUTH_LOGOUT"

\* C20: generateAuthUrl() does not mutate local state unless the session it
\* finds has passed its deadline: then its isLoggedIn() test logs the session
\* out (memory, deadline and every persisted copy cleared, subscribers told,
\* logout notification emitted) and the call fails; in every other case,
\* whether it returns a URL or fails, nothing is changed, no subscriber is
\* invoked and no notification is emitted.
C20_GenerateAuthUrlFrame ==
    [][GenerateAuthUrl("A")
       => IF user["A"] # Null /\ Expired(World, "A")
          THEN /\ hist'[Len(hist')].ret = <<"Error">>
               /\ LoggedOutAndCleared("A")
               /\ LogoutAnnounced("A")
          ELSE Untouched /\ UNCHANGED winQueue]_vars

\* a logged-in context with a subscriber has just been given a hand-off URL
C20_Witness ==
    /\ Len(hist) > 0
    /\ Last.op = "generateAuthUrl"
    /\ Last.ctx = "A"
    /\ Last.ret # <<"Error">>
    /\ user["A"] # Null
    /\ listeners["A"] # <<>>


-----------------------------------------------------------------------------
(* A browser without BroadcastChannel *)

MaxTransportOps == 3

\* Two listening tabs of one origin, in a browser that has BroadcastChannel or in
\* one where new BroadcastChannel() throws.
InitTransport ==
    /\ Profile(Tabs, Tabs, MaxTransportOps, 0)
    /\ channelSupported \in BOOLEAN

NextTransport ==
    \/ \E cr \in Credentials : Login("A", cr[1], cr[2])
    \/ Logout("A")
    \/ \E cb \in Callbacks : Subscribe("A", cb)
    \/ DeliverMessage("A")
    \/ DeliverBroadcast("B")
    \/ DeliverStorage("B")

SpecTransport == InitTransport /\ [][NextTransport]_vars

\* the step has called every subscriber of c, in order, with u
Notified(c, u) ==
    called'[c] = [i \in 1..Len(listeners[c]) |-> <<listeners[c][i], u>>]

\* the step has posted one message of that type to the window of c and nothing to
\* any BroadcastChannel
WindowMessageOnly(c, type) ==
    /\ Len(winQueue'[c]) = Len(winQueue[c]) + 1
    /\ winQueue'[c][Len(winQueue'[c])].type = type
    /\ bcQueue' = bcQueue

\* after the step every persisted copy of context c holds token t and subject u
PersistedEverywhere(c, u, t) ==
    /\ localStorage'[Origin(c)]["auth:token"] = t
    /\ localStorage'[Origin(c)]["auth:user"] = JSONstringify(u)
    /\ sessionStorage'[c]["auth:token"] = t
    /\ sessionStorage'[c]["auth:user"] = JSONstringify(u)
    /\ getCookie(World, c, "auth_token")' = t
    /\ getCookie(World, c, "auth_user")' = JSONstringify(u)

\* C21: where BroadcastChannel is missing or fails, login and logout still
\* complete without an error: the session in memory is updated, every persisted
\* copy is written or cleared, the subscribers are notified and the window
\* message is still posted.
C21_TransportUnavailable ==
    [][/\ \A cr \in Credentials :
            (Login("A", cr[1], cr[2]) /\ ~channelSupported)
            => /\ hist'[Len(hist')].ret = Void
               /\ user'["A"] = cr[1]
               /\ PersistedEverywhere("A", cr[1], cr[2])
               /\ Notified("A", cr[1])
               /\ WindowMessageOnly("A", "AUTH_LOGIN")
       /\ (Logout("A") /\ ~channelSupported)
            => /\ hist'[Len(hist')].ret = Void
               /\ LoggedOutAndCleared("A")
               /\ Notified("A", Null)
               /\ WindowMessageOnly("A", "AUTH_LOGOUT")]_vars

\* without BroadcastChannel a context with a subscriber has logged in and then out
C21_Witness ==
    /\ ~channelSupported
    /\ Pair("login", "logout")
    /\ listeners["A"] # <<>>
    /\ user["A"] = Null
    /\ Len(winQueue["A"]) = 2


-----------------------------------------------------------------------------
(* Writes that fail *)

MaxPersistOps == 3
MaxPersistTicks == 2

InitPersist == Start({"A"}, {}, MaxPersistOps, MaxPersistTicks)

NextPersist ==
    \/ \E cr \in Credentials : Login("A", cr[1], cr[2])
    \/ \E cr \in Credentials, k \in LoginWrites : LoginThrowing("A", cr[1], cr[2], k)
    \/ Logout("A")
    \/ IsLoggedIn("A")
    \/ \E d \in ExpirySteps : Tick(d)

SpecPersist == InitPersist /\ [][NextPersist]_vars

\* C22: a login(S, T) in which a localStorage or cookie write throws is not
\* rolled back in memory: afterwards (within the lifetime) getUser() returns S
\* and isLoggedIn() returns true.
C22_NoRollback ==
    (Pair("loginThrew", "isLoggedIn") /\ hist[2].at <= hist[1].at + Lifetime(hist[1].ctx))
    => /\ hist[2].ret = Bool(TRUE)
       /\ getUser(World, hist[1].ctx) = hist[1].user

\* the first write of a login over another subject's session threw; then isLoggedIn()
C22_Witness ==
    /\ Pair("loginThrew", "isLoggedIn")
    /\ hist[1].arg = <<"num", 1>>
    /\ hist[1].was # Null
    /\ hist[1].was # hist[1].user
    /\ hist[2].at > hist[1].at
    /\ hist[2].ret = Bool(TRUE)


\* the step has written to no persisted copy and cleared none
NothingPersisted == UNCHANGED <<localStorage, sessionStorage, cookie>>

\* the step has taken the first event of one queue of context c ("win", "bc" or
\* "storage") and has added no event to any queue: no notification was emitted
OnlyConsumed(queue, c) ==
    /\ winQueue' = IF queue = "win" THEN [winQueue EXCEPT ![c] = Tail(@)] ELSE winQueue
    /\ bcQueue' = IF queue = "bc" THEN [bcQueue EXCEPT ![c] = Tail(@)] ELSE bcQueue
    /\ storageQueue' = IF queue = "storage" THEN [storageQueue EXCEPT ![c] = Tail(@)]
                       ELSE storageQueue

\* the step has made u the subject of c and called every subscriber of c with it
Applied(c, u) == user'[c] = u /\ Notified(c, u)

\* C23: applying a received login or logout notification (BroadcastChannel
\* message, AUTH_LOGIN / AUTH_LOGOUT window message, storage event) updates the
\* session in memory and calls the subscribers, and never emits a notification
\* nor writes to or clears a persisted copy.
C23_ReceiveSide ==
    [][\A c \in Tabs :
        /\ DeliverBroadcast(c)
             => /\ NothingPersisted
                /\ OnlyConsumed("bc", c)
                /\ Applied(c, IF Head(bcQueue[c]).type = "login"
                              THEN Head(bcQueue[c]).user ELSE Null)
        /\ (DeliverMessage(c) /\ Head(winQueue[c]).type \in {"AUTH_LOGIN", "AUTH_LOGOUT"})
             => /\ NothingPersisted
                /\ OnlyConsumed("win", c)
                /\ Applied(c, IF Head(winQueue[c]).type = "AUTH_LOGIN"
                              THEN Head(winQueue[c]).user ELSE Null)
        /\ DeliverStorage(c)
             => /\ NothingPersisted
                /\ OnlyConsumed("storage", c)
                /\ IF /\ ~TruthyStr(Head(storageQueue[c]).newValue)
                      /\ TruthyStr(Head(storageQueue[c]).oldValue)
                   THEN Applied(c, Null)
                   ELSE user'[c] = user[c] /\ called'[c] = <<>>]_vars

\* tab B, with a subscriber, has applied a login it received on the channel
C23_Witness ==
    /\ Len(hist) > 0
    /\ Last.op = "broadcast"
    /\ Last.ctx = "B"
    /\ Last.arg[2].type = "login"
    /\ user["B"] = Last.arg[2].user
    /\ called["B"] # <<>>


\* the persisted copies a reader found all held token t and subject u
HoldsEverywhere(s, u, t) ==
    /\ s.localToken = t
    /\ s.localUser = JSONstringify(u)
    /\ s.sessionToken = t
    /\ s.sessionUser = JSONstringify(u)
    /\ s.cookieToken = t
    /\ s.cookieUser = JSONstringify(u)

\* C24: inside login(S, T), at each call of a subscriber and at the emission of
\* the notifications, every persisted copy (localStorage, sessionStorage and the
\* cookies) already holds T and S.
C24_PersistedBeforeNotify ==
    (Len(hist) > 0 /\ Last.op = "login")
    => \A i \in 1..Len(seen[Last.ctx]) :
           HoldsEverywhere(seen[Last.ctx][i], Last.user, Last.token)


-----------------------------------------------------------------------------
(* A tab with a session of its own adopts the session of another tab *)

MaxAdoptOps == 3
MaxAdoptTicks == 3

InitAdopt == Start(Tabs, Tabs, MaxAdoptOps, MaxAdoptTicks)

\* B logs in as alice, A as bob; B receives what the channel brings and asks
\* isLoggedIn() as time passes
NextAdopt ==
    \/ Login("B", <<"obj", "alice">>, Raw("t1"))
    \/ Login("A", <<"obj", "bob">>, Raw("t2"))
    \/ DeliverBroadcast("B")
    \/ IsLoggedIn("B")
    \/ \E d \in ExpirySteps : Tick(d)

SpecAdopt == InitAdopt /\ [][NextAdopt]_vars

\* context c has just applied the login notification of the session that the
\* stores of its origin hold, and that session's deadline has not passed
AdoptedRunningSession(c) ==
    /\ Len(hist) > 0
    /\ Last.op = "broadcast"
    /\ Last.ctx = c
    /\ Last.arg[2].type = "login"
    /\ lastLogin[Origin(c)] # Null
    /\ lastLogin[Origin(c)].user = Last.arg[2].user
    /\ now <= lastLogin[Origin(c)].at + lastLogin[Origin(c)].lifetime

\* C25: a session adopted from a remote login notification replaces what the
\* context held: isLoggedIn() in B is true up to the deadline t0 + L of the
\* adopted session, whatever B held before, and reading it logs nobody out.
C25_AdoptedWholesale ==
    [][(IsLoggedIn("B") /\ AdoptedRunningSession("B"))
       => /\ hist'[Len(hist')].ret = Bool(TRUE)
          /\ UNCHANGED <<user, localStorage, sessionStorage, cookie>>]_vars


\* C26: expiry is enforced on every session however it entered the context
\* (login, restoration at construction, or a remote login notification):
\* isLoggedIn() never returns true for the session the origin holds at an
\* instant later than that session's issue time plus its lifetime.
C26_ExpiryEverySession ==
    (/\ Len(hist) > 0
     /\ Last.op = "isLoggedIn"
     /\ Last.ret = Bool(TRUE)
     /\ lastLogin[Origin(Last.ctx)] # Null
     /\ user[Last.ctx] = lastLogin[Origin(Last.ctx)].user)
    => Last.at <= lastLogin[Origin(Last.ctx)].at + lastLogin[Origin(Last.ctx)].lifetime


\* C27: the auth_token and auth_user cookies written by login at t0 with a
\* lifetime of L milliseconds carry the max-age (in seconds) that makes them
\* expire at t0 + L, the instant of the deadline in memory.
C27_CookieLifetime ==
    (Len(hist) > 0 /\ Last.op = "login")
    => \A n \in CookieNames :
           LET e == cookie[Origin(Last.ctx)][n]
           IN  /\ e # Null
               /\ e[2] = Last.at
               /\ e[3] = Lifetime(Last.ctx) \div MsPerSecond


-----------------------------------------------------------------------------
(* An application that configures its AuthManager *)

MaxConfigOps == 4

\* Application A (listening) and application X are loaded; A passes a
\* configuration to new AuthManager(config); X logs in and posts its session to
\* the window of A.
InitConfig == Start({"A", "X"}, {"A"}, MaxConfigOps, 0)

NextConfig ==
    \/ \E cfg \in ConfigArgs : New("A", cfg)
    \/ \E cr \in Credentials : Login("X", cr[1], cr[2])
    \/ ShareAuthWithApp("X", Origin("A"), "A")
    \/ Logout("A")
    \/ DeliverMessage("A")

SpecConfig == InitConfig /\ [][NextConfig]_vars

\* the last thing the application did in context c was to construct its
\* AuthManager with crossOriginEnabled: false
DisabledCrossOrigin(c) ==
    /\ Len(hist) > 0
    /\ Last.op = "new"
    /\ Last.ctx = c
    /\ Last.arg[2].crossOriginEnabled = "false"

\* C28: with crossOriginEnabled = false in the configuration, no inbound window
\* message (AUTH_SHARE, AUTH_LOGIN, AUTH_LOGOUT) changes the session of the context.
C28_CrossOriginDisabled ==
    [][(DeliverMessage("A") /\ DisabledCrossOrigin("A"))
       => UNCHANGED <<user, tokenExpiryTime>>]_vars


\* nothing is in flight: every notification and storage event has been delivered
Quiescent == \A c \in Contexts : Received19(c)

\* the subject the shared localStorage of an origin holds (absent if it is empty)
StoredSubject(o) ==
    IF TruthyStr(localStorage[o]["auth:user"]) /\ JSONparse(localStorage[o]["auth:user"]).ok
    THEN JSONparse(localStorage[o]["auth:user"]).val
    ELSE Null

\* C29: quiescent convergence: after any logins and logouts by listening tabs of
\* one origin, once everything in flight is delivered (no deadline passed),
\* getUser() is the same in every tab and is the subject the shared localStorage
\* holds.
C29_QuiescentConvergence ==
    Quiescent => \A c \in Tabs : getUser(World, c) = StoredSubject(Origin(c))


-----------------------------------------------------------------------------
(* One operation at a time *)

MaxOnceOps == 4

InitOnce == Start(Tabs, Tabs, MaxOnceOps, 0)

\* Both tabs listen; callbacks are subscribed and tab A logs in or out only when
\* nothing is in flight, so that what is delivered afterwards comes from that
\* one operation and reaches the subscribers that were there when it began.
SubscribeWhenQuiet(c, cb) == Quiescent /\ Subscribe(c, cb)
LoginWhenQuiet(c, u, t) == Quiescent /\ Login(c, u, t)
LogoutWhenQuiet(c) == Quiescent /\ Logout(c)

NextOnce ==
    \/ \E c \in Tabs, cb \in Callbacks : SubscribeWhenQuiet(c, cb)
    \/ \E cr \in Credentials : LoginWhenQuiet("A", cr[1], cr[2])
    \/ LogoutWhenQuiet("A")
    \/ \E c \in Tabs : DeliverMessage(c)
    \/ \E c \in Tabs : DeliverBroadcast(c)
    \/ \E c \in Tabs : DeliverStorage(c)

SpecOnce == InitOnce /\ [][NextOnce]_vars

\* a login or logout of tab A has been performed and all it sent is delivered
DeliveredAll ==
    /\ Quiescent
    /\ since[Origin("A")].op # "none"

\* how often the subscribers that were registered in tab c when the operation
\* began have each been called since: n times per registration
CalledTimes(c, n) ==
    LET s == since[Origin(c)]
    IN  \A cb \in Callbacks :
            Count(cb, s.subs[c]) > 0 => s.calls[c][cb] = n * Count(cb, s.subs[c])

-----------------------------------------------------------------------------
(* Hand-off payloads with any timestamp *)

MaxStampOps == 3
MaxStampTicks == 1

\* the timestamps a payload made at time t by other code than generateAuthUrl and
\* shareAuthWithApp may carry: five minutes back, the present, a millisecond and
\* five minutes ahead
StampsAt(t) == {t - ReplayWindowMs, t, t + 1, t + ReplayWindowMs}

\* the auth_timestamp parameter of a link is text
LinkStampsAt(t) ==
    {NumToString(Num(k)) : k \in StampsAt(t)}
        \cup {DecimalThenText(t), Raw("soon")}

\* the timestamp field of a posted message is any value: a number, or text
MessageStampsAt(t) == {Num(k) : k \in StampsAt(t)} \cup {Raw("soon")}

\* a page of application A's origin posts a message of the AUTH_SHARE shape that
\* it built itself to the window of d
PostStamped(d, u, t, stamp) ==
    /\ instance[d]
    /\ Call
    /\ LET msg == [type |-> "AUTH_SHARE", user |-> Null,
                   auth |-> <<t, u, stamp>>, origin |-> Origin("A")]
       IN  /\ Commit([World EXCEPT !.winQueue[d] = Append(@, msg)])
           /\ Record(Op("post", d, u, t, <<"msg", msg>>, Void))
    /\ UNCHANGED links

\* Application X is opened at links and is posted messages whose timestamps lie
\* before, at and after its clock, or are not numbers.
InitStamp == Start({}, {}, MaxStampOps, MaxStampTicks)

\* a page of the application is opened at a link that other code built
OpenLink(c) ==
    \E cr \in Credentials, s \in LinkStampsAt(now) :
        Load(c, Url(cr[2], JSONstringify(cr[1]), s))

PostAnyStamp(d) ==
    \E cr \in Credentials, s \in MessageStampsAt(now) :
        PostStamped(d, cr[1], cr[2], s)

NextStamp ==
    \/ OpenLink("X")
    \/ Load("X", Null)
    \/ ProcessAuthFromUrl("X")
    \/ PostAnyStamp("X")
    \/ DeliverMessage("X")
    \/ \E d \in TickSteps : Tick(d)

SpecStamp == InitStamp /\ [][NextStamp]_vars

\* the number a timestamp is, NaN when it is not a number
AsNumber(stamp) == IF stamp[1] \in {"num", "dec"} THEN Num(stamp[2]) ELSE NaN

\* the timestamp is a number, no later than the present and at most five minutes
\* before it
InWindow(stamp) ==
    /\ AsNumber(stamp)[1] = "num"
    /\ AsNumber(stamp)[2] <= now
    /\ now - AsNumber(stamp)[2] <= ReplayWindowMs

\* C31: a hand-off payload (the parameters of the URL, an AUTH_SHARE message) is
\* adopted only if its timestamp is no later than the receiver's present and at
\* most 5 minutes earlier: one stamped in the future, or whose timestamp is not a
\* number, is rejected and changes nothing.
C31_AcceptanceWindow ==
    [][/\ (/\ ProcessAuthFromUrl("X")
           /\ location["X"] # Null
           /\ ~InWindow(FormDecode(location["X"][4])))
          => /\ hist'[Len(hist')].ret = Bool(FALSE)
             /\ Untouched
             /\ UNCHANGED winQueue
       /\ (/\ DeliverMessage("X")
           /\ Head(winQueue["X"]).type = "AUTH_SHARE"
           /\ ~InWindow(Head(winQueue["X"]).auth[3]))
          => /\ Untouched
             /\ winQueue' = [winQueue EXCEPT !["X"] = Tail(@)]]_vars


-----------------------------------------------------------------------------
(* Hand-off while another tab logs in *)

MaxPairOps == 3

\* Two tabs of one application log in and out; tab A, which listens for the
\* changes made elsewhere, makes links and posts its session to the window of
\* application X.
InitPair == Start(Contexts, {"A"}, MaxPairOps, 0)

NextPair ==
    \/ \E c \in Tabs, cr \in Credentials : Login(c, cr[1], cr[2])
    \/ \E c \in Tabs : Logout(c)
    \/ GenerateAuthUrl("A")
    \/ ShareAuthWithApp("A", Origin("X"), "X")
    \/ DeliverMessage("A")
    \/ DeliverBroadcast("A")
    \/ DeliverStorage("A")

SpecPair == InitPair /\ [][NextPair]_vars

\* the subject and the token that a link carries
LinkPair(url) == <<JSONparse(FormDecode(url[3])).val, FormDecode(url[2])>>

\* C32: the subject and the token that generateAuthUrl or shareAuthWithApp put in
\* one payload were given together to one login call (every login here is given
\* a pair of Credentials), however the logins and logouts of the tabs of the origin
\* interleave.
C32_PayloadConsistency ==
    /\ \A l \in links : LinkPair(l.url) \in Credentials
    /\ \A i \in 1..Len(winQueue["X"]) :
          winQueue["X"][i].type = "AUTH_SHARE"
          => <<winQueue["X"][i].auth[2], winQueue["X"][i].auth[1]>> \in Credentials


-----------------------------------------------------------------------------
(* What a delivery sends in turn *)

MaxEchoOps == 2
MaxEchoTicks == 1

\* Tab A and application X listen, tab B is open. Tab A logs in and out, asks
\* isLoggedIn() before and after the deadline and posts its session to X; every
\* event is dispatched in its context.
InitEcho == Start(Contexts, {"A", "X"}, MaxEchoOps, MaxEchoTicks)

\* the event loop of some context dispatches an event that waits for it
Deliver ==
    \/ \E c \in Contexts : DeliverMessage(c)
    \/ \E c \in Contexts : DeliverBroadcast(c)
    \/ DeliverStorage("B")

NextEcho ==
    \/ \E cr \in Credentials : Login("A", cr[1], cr[2])
    \/ Logout("A")
    \/ IsLoggedIn("A")
    \/ ShareAuthWithApp("A", Origin("X"), "X")
    \/ Deliver
    \/ Tick(DefaultTokenExpiry + 1)

SpecEcho == InitEcho /\ [][NextEcho]_vars

\* An event loop that has an event to dispatch dispatches one.
FairEcho == SpecEcho /\ WF_vars(Deliver)

\* the events one login or logout can send: a message to the own window, and to
\* each context of the origin a channel message and a storage event per key
FanOut == 1 + Cardinality(Contexts) * (1 + Cardinality(LocalKeys))

\* what is in flight, an AUTH_SHARE message counted with all its adoption can send
RECURSIVE Pending(_)
Pending(queue) ==
    IF queue = <<>> THEN 0
    ELSE (IF Head(queue).type = "AUTH_SHARE" THEN 1 + FanOut ELSE 1) + Pending(Tail(queue))

RECURSIVE InFlight(_)
InFlight(S) ==
    IF S = {} THEN 0
    ELSE LET c == CHOOSE d \in S : TRUE
         IN  Pending(winQueue[c]) + Len(bcQueue[c]) + Len(storageQueue[c])
                 + InFlight(S \ {c})

\* C33: no echo loop. The dispatch of a notification (an AUTH_SHARE hand-off and
\* the message a window posts to itself included) never leaves as much in flight,
\* counted with what an AUTH_SHARE can still send, as there was before it; so the
\* chain it starts is bounded, and after the last local operation (login, logout,
\* isLoggedIn, accepted hand-off) the contexts reach a state with nothing in
\* flight and stay there.
C33_NoEchoLoop ==
    /\ [][Deliver => (InFlight(Contexts))' < InFlight(Contexts)]_vars
    /\ <>[]Quiescent

\* application X adopted the session posted by A, and the message its login posted
\* to its own window was the last of all events to be dispatched
C33_Witness ==
    /\ Len(hist) = 2
    /\ hist[2].op = "message"
    /\ hist[2].ctx = "X"
    /\ hist[2].arg[2].type = "AUTH_LOGIN"
    /\ since[Origin("X")].op = "login"
    /\ user["X"] # Null
    /\ user["A"] # Null
    /\ Quiescent

====
